---- MODULE Spec2Model ----
(***************************************************************************)
(* Model of OpenSearchSchemaFetcher.get_schema                             *)
(* (lib/sycamore/sycamore/query/schema.py): the walk over the keys of the  *)
(* field mapping and, for every eligible key, over the random sample,      *)
(* with the incremental type reconciliation of the sampled values.         *)
(*                                                                         *)
(* A key is the sequence of its dot-separated segments, so                 *)
(* "properties.x.keyword" is <<"properties", "x", "keyword">>.             *)
(* A Python value is a record [t |-> type name, v |-> payload]; a float    *)
(* carries its value in tenths (75 is 7.5).  Python strings are strings.   *)
(*                                                                         *)
(* The module also models Limit.local_execute and Limit.execute            *)
(* (lib/sycamore/sycamore/transforms/basics.py), run side by side over the *)
(* same input; SpecLimit is their specification, Spec that of get_schema.  *)
(* OpenSearchSchema.to_schema (schema.py) is specified by SpecToSchema.    *)
(***************************************************************************)
EXTENDS Integers, Sequences, FiniteSets, TLC

VARIABLES
    schema,        \* get_field_mapping result: one key listing per index
    random_sample, \* number of hits of the sampling query
    pc,            \* position in get_schema
    result,        \* OpenSearchSchema.fields, in insertion order
    ki,            \* position of `key` in one_schema["mappings"].keys()
    si,            \* position of `sample` in random_sample
    samples,       \* set[str] of the current key
    sample_type,   \* Optional[type] of the current key
    warnings,      \* Dict[str, bool] of the current key (its key set)
    nwarn,         \* logger.warning calls made for the current key
    examined,      \* dotted_lookup calls made for the current key
    hadValue,      \* some dotted_lookup of the current key was not None
    failed,        \* the keys whose walk ended in the KeyError handler
    discarded,     \* those of them that had a non-None value sampled before
    valued,        \* ghost: the keys for which a lookup returned a value
    seen,          \* the non-None values dotted_lookup gave for the current key
    all_docs,      \* Limit: the documents the child node produces
    limit,         \* Limit._limit
    lpc,           \* position in local_execute
    lpos,          \* position of `doc` in all_docs
    count_local,   \* count of local_execute
    filtered_docs, \* filtered_docs of local_execute
    epc,           \* position in execute
    epos,          \* position of `doc` in dataset.iter_rows()
    count_exec,    \* count of execute
    rayDocs,       \* rayDocs of execute
    self_fields,   \* to_schema: self.fields, the mapping, in insertion order
    tpc,           \* position of to_schema
    tpos,          \* index of the item its loop is at
    schema_fields  \* to_schema: the list fields

schemaVars == <<schema, random_sample, pc, result, ki, si, samples, sample_type,
                warnings, nwarn, examined, hadValue, failed, discarded, seen,
                valued>>

limitVars == <<all_docs, limit, lpc, lpos, count_local, filtered_docs,
               epc, epos, count_exec, rayDocs>>

toVars == <<self_fields, tpc, tpos, schema_fields>>

vars == <<schemaVars, limitVars, toVars>>

----------------------------------------------------------------------------
(* Bounds *)

MaxKeys == 2

MaxSample == 6

MaxAliasKeys == 1

MaxNarrowKeys == 1

MaxWideSample == 4

MaxDocs == 4

MaxLimit == 2

MaxFields == 2

(* Program constants *)

NUM_EXAMPLE_VALUES == 5

----------------------------------------------------------------------------
(* Python values and their string conversions *)

PyInt(n) == [t |-> "int", v |-> n]

PyFloat(tenths) == [t |-> "float", v |-> tenths]

PyBool(b) == [t |-> "bool", v |-> b]

PyStr(s) == [t |-> "str", v |-> s]

PyList(l) == [t |-> "list", v |-> l]

None == [t |-> "NoneType", v |-> 0]

NoType == "unset"

Digit(d) == CASE d = 0 -> "0" [] d = 1 -> "1" [] d = 2 -> "2" [] d = 3 -> "3"
              [] d = 4 -> "4" [] d = 5 -> "5" [] d = 6 -> "6" [] d = 7 -> "7"
              [] d = 8 -> "8" [] d = 9 -> "9"

RECURSIVE NatStr(_)
NatStr(n) == IF n < 10 THEN Digit(n) ELSE NatStr(n \div 10) \o Digit(n % 10)

IntStr(n) == IF n < 0 THEN "-" \o NatStr(0 - n) ELSE NatStr(n)

FloatStr(tenths) ==
    IF tenths < 0
    THEN "-" \o NatStr((0 - tenths) \div 10) \o "." \o Digit((0 - tenths) % 10)
    ELSE NatStr(tenths \div 10) \o "." \o Digit(tenths % 10)

\* repr() of a str without quotes or backslashes
StrRepr(s) == "'" \o s \o "'"

RECURSIVE str(_), repr(_), JoinRepr(_)
repr(x) == IF x.t = "str" THEN StrRepr(x.v) ELSE str(x)

JoinRepr(l) ==
    IF l = <<>> THEN ""
    ELSE IF Len(l) = 1 THEN repr(l[1])
    ELSE repr(l[1]) \o ", " \o JoinRepr(Tail(l))

str(x) ==
    CASE x.t = "int" -> IntStr(x.v)
      [] x.t = "float" -> FloatStr(x.v)
      [] x.t = "bool" -> IF x.v THEN "True" ELSE "False"
      [] x.t = "str" -> x.v
      [] x.t = "list" -> "[" \o JoinRepr(x.v) \o "]"
      [] x.t = "NoneType" -> "None"

type(x) == x.t

\* str(sample_type)
TypeStr(t) == IF t = NoType THEN "None" ELSE "<class '" \o t \o "'>"

----------------------------------------------------------------------------
(* Inputs *)

KEYWORD == "keyword"

PROPERTIES == "properties"

text_representation == <<"text_representation">>

Keys == { <<"properties", "x">>,
          <<"properties", "name">>,
          <<"properties", "name", "keyword">>,
          <<"doc_id">>,
          text_representation }

Ints == {1, 3, 5}

\* the values sampled records hold under properties.x
Values ==
    {PyInt(n) : n \in Ints} \cup {PyFloat(75)} \cup {PyBool(TRUE)}
    \cup {PyStr("a"), PyStr("foo")} \cup {PyList(<<PyStr("b"), PyStr("c")>>)}

\* the values they hold under any other key
OtherValues == {PyStr("a")}

ValuesFor(k) == IF k = <<"properties", "x">> THEN Values ELSE OtherValues

AllValues == Values \cup OtherValues

\* dotted_lookup raises KeyError
KeyError == [t |-> "KeyError", v |-> 0]

RECURSIVE SeqsUpTo(_, _)
SeqsUpTo(S, n) ==
    IF n = 0 THEN {<<>>}
    ELSE LET shorter == SeqsUpTo(S, n - 1)
         IN  shorter \cup {Append(q, x) : q \in {r \in shorter : Len(r) = n - 1}, x \in S}

Range(q) == {q[i] : i \in 1..Len(q)}

\* the keys of a dict: distinct, in insertion order
Listings == {q \in SeqsUpTo(Keys, MaxKeys) : Cardinality(Range(q)) = Len(q)}

\* the listing of a second index behind an alias
AliasListing == << <<"properties", "x">>, <<"properties", "alias">> >>

\* get_field_mapping returns one listing per index, at least one: a single
\* index, or an alias of two whose first listing has up to MaxAliasKeys keys
Schemas ==
    {<<first>> : first \in Listings}
    \cup {<<first, AliasListing>> : first \in {l \in Listings : Len(l) <= MaxAliasKeys}}

\* the sampling query returns up to MaxSample hits for a single index with
\* up to MaxNarrowKeys keys, up to MaxWideSample hits otherwise
SampleBound(sch) ==
    IF Len(sch) = 1 /\ Len(sch[1]) <= MaxNarrowKeys THEN MaxSample ELSE MaxWideSample

----------------------------------------------------------------------------
(* get_schema *)

\* mutant: the suffix test looks at the first segment
endswith_keyword_first(key) == Len(key) >= 2 /\ key[1] = KEYWORD

endswith_keyword(key) == Len(key) >= 2 /\ key[Len(key)] = KEYWORD

\* mutant: the prefix test accepts any first segment
startswith_properties_any(key) == Len(key) >= 1

startswith_properties(key) == Len(key) >= 2 /\ key[1] = PROPERTIES

Eligible(key) == ~endswith_keyword(key) /\ startswith_properties(key)

\* mutant: the listing of the last index is taken
one_schema_last == schema[Len(schema)]

one_schema == schema[1]

key == one_schema[ki]

OpenSearchSchemaField(field_type, description, examples) ==
    [name |-> "default", field_type |-> field_type,
     description |-> description, examples |-> examples]

SyntheticField ==
    OpenSearchSchemaField("<class 'str'>",
                          <<"Can be assumed to have all other details">>, <<>>)

HasField(fields, name) == \E i \in 1..Len(fields) : fields[i].key = name

FieldOf(fields, name) ==
    fields[CHOOSE i \in 1..Len(fields) : fields[i].key = name].field

\* result.fields[name] = field
SetField(fields, name, field) ==
    IF HasField(fields, name)
    THEN [i \in 1..Len(fields) |->
            IF fields[i].key = name THEN [key |-> name, field |-> field]
            ELSE fields[i]]
    ELSE Append(fields, [key |-> name, field |-> field])

\* mutant: a conflict takes the type of the new value
Reconcile_conflict_new(st, smp, warned, sample_value) ==
    LET t == type(sample_value)
        same == [sample_type |-> st, samples |-> smp,
                 sample_value |-> sample_value, warn |-> FALSE]
    IN  IF st = NoType THEN [same EXCEPT !.sample_type = t]
        ELSE IF st = "int" /\ t = "float" THEN [same EXCEPT !.sample_type = t]
        ELSE IF st = "float" /\ t = "int" THEN same
        ELSE IF st = "list" /\ t # "list"
             THEN [same EXCEPT !.sample_value = PyList(<<sample_value>>)]
        ELSE IF st # "list" /\ t = "list"
             THEN [same EXCEPT !.sample_type = t,
                               !.samples = {str(PyList(<<PyStr(x)>>)) : x \in smp}]
        ELSE IF st # t
             THEN [same EXCEPT !.sample_type = t,
                               !.samples = {str(PyStr(x)) : x \in smp},
                               !.warn = ~warned]
        ELSE same

\* mutant: under list every new value is wrapped, a list too
Reconcile_wrap_all(st, smp, warned, sample_value) ==
    LET t == type(sample_value)
        same == [sample_type |-> st, samples |-> smp,
                 sample_value |-> sample_value, warn |-> FALSE]
    IN  IF st = NoType THEN [same EXCEPT !.sample_type = t]
        ELSE IF st = "int" /\ t = "float" THEN [same EXCEPT !.sample_type = t]
        ELSE IF st = "float" /\ t = "int" THEN same
        ELSE IF st = "list"
             THEN [same EXCEPT !.sample_value = PyList(<<sample_value>>)]
        ELSE IF st # "list" /\ t = "list"
             THEN [same EXCEPT !.sample_type = t,
                               !.samples = {str(PyList(<<PyStr(x)>>)) : x \in smp}]
        ELSE IF st # t
             THEN [same EXCEPT !.sample_type = "str",
                               !.samples = {str(PyStr(x)) : x \in smp},
                               !.warn = ~warned]
        ELSE same

\* mutant: the warning is not guarded by the warnings dict
Reconcile_warn_always(st, smp, warned, sample_value) ==
    LET t == type(sample_value)
        same == [sample_type |-> st, samples |-> smp,
                 sample_value |-> sample_value, warn |-> FALSE]
    IN  IF st = NoType THEN [same EXCEPT !.sample_type = t]
        ELSE IF st = "int" /\ t = "float" THEN [same EXCEPT !.sample_type = t]
        ELSE IF st = "float" /\ t = "int" THEN same
        ELSE IF st = "list" /\ t # "list"
             THEN [same EXCEPT !.sample_value = PyList(<<sample_value>>)]
        ELSE IF st # "list" /\ t = "list"
             THEN [same EXCEPT !.sample_type = t,
                               !.samples = {str(PyList(<<PyStr(x)>>)) : x \in smp}]
        ELSE IF st # t
             THEN [same EXCEPT !.sample_type = "str",
                               !.samples = {str(PyStr(x)) : x \in smp},
                               !.warn = TRUE]
        ELSE same

\* mutant: the promotion to list keeps the examples as they are
Reconcile_no_rewrap(st, smp, warned, sample_value) ==
    LET t == type(sample_value)
        same == [sample_type |-> st, samples |-> smp,
                 sample_value |-> sample_value, warn |-> FALSE]
    IN  IF st = NoType THEN [same EXCEPT !.sample_type = t]
        ELSE IF st = "int" /\ t = "float" THEN [same EXCEPT !.sample_type = t]
        ELSE IF st = "float" /\ t = "int" THEN same
        ELSE IF st = "list" /\ t # "list"
             THEN [same EXCEPT !.sample_value = PyList(<<sample_value>>)]
        ELSE IF st # "list" /\ t = "list"
             THEN [same EXCEPT !.sample_type = t,
                               !.samples = smp]
        ELSE IF st # t
             THEN [same EXCEPT !.sample_type = "str",
                               !.samples = {str(PyStr(x)) : x \in smp},
                               !.warn = ~warned]
        ELSE same

\* mutant: an int after a float takes the type back to int
Reconcile_float_to_int(st, smp, warned, sample_value) ==
    LET t == type(sample_value)
        same == [sample_type |-> st, samples |-> smp,
                 sample_value |-> sample_value, warn |-> FALSE]
    IN  IF st = NoType THEN [same EXCEPT !.sample_type = t]
        ELSE IF st = "int" /\ t = "float" THEN [same EXCEPT !.sample_type = t]
        ELSE IF st = "float" /\ t = "int" THEN [same EXCEPT !.sample_type = t]
        ELSE IF st = "list" /\ t # "list"
             THEN [same EXCEPT !.sample_value = PyList(<<sample_value>>)]
        ELSE IF st # "list" /\ t = "list"
             THEN [same EXCEPT !.sample_type = t,
                               !.samples = {str(PyList(<<PyStr(x)>>)) : x \in smp}]
        ELSE IF st # t
             THEN [same EXCEPT !.sample_type = "str",
                               !.samples = {str(PyStr(x)) : x \in smp},
                               !.warn = ~warned]
        ELSE same

\* mutant: a type already demoted to str is not upgraded by a list
Reconcile_str_absorbs(st, smp, warned, sample_value) ==
    LET t == type(sample_value)
        same == [sample_type |-> st, samples |-> smp,
                 sample_value |-> sample_value, warn |-> FALSE]
    IN  IF st = NoType THEN [same EXCEPT !.sample_type = t]
        ELSE IF st = "int" /\ t = "float" THEN [same EXCEPT !.sample_type = t]
        ELSE IF st = "float" /\ t = "int" THEN same
        ELSE IF st = "list" /\ t # "list"
             THEN [same EXCEPT !.sample_value = PyList(<<sample_value>>)]
        ELSE IF st \notin {"list", "str"} /\ t = "list"
             THEN [same EXCEPT !.sample_type = t,
                               !.samples = {str(PyList(<<PyStr(x)>>)) : x \in smp}]
        ELSE IF st # t
             THEN [same EXCEPT !.sample_type = "str",
                               !.samples = {str(PyStr(x)) : x \in smp},
                               !.warn = ~warned]
        ELSE same

\* lines 94-123: the sample type and samples after seeing a non-None value,
\* the value to be added, and whether logger.warning is called
Reconcile(st, smp, warned, sample_value) ==
    LET t == type(sample_value)
        same == [sample_type |-> st, samples |-> smp,
                 sample_value |-> sample_value, warn |-> FALSE]
    IN  IF st = NoType THEN [same EXCEPT !.sample_type = t]
        ELSE IF st = "int" /\ t = "float" THEN [same EXCEPT !.sample_type = t]
        ELSE IF st = "float" /\ t = "int" THEN same
        ELSE IF st = "list" /\ t # "list"
             THEN [same EXCEPT !.sample_value = PyList(<<sample_value>>)]
        ELSE IF st # "list" /\ t = "list"
             THEN [same EXCEPT !.sample_type = t,
                               !.samples = {str(PyList(<<PyStr(x)>>)) : x \in smp}]
        ELSE IF st # t
             THEN [same EXCEPT !.sample_type = "str",
                               !.samples = {str(PyStr(x)) : x \in smp},
                               !.warn = ~warned]
        ELSE same

\* mutant: > for >=
CapReached_gt(smp) == Cardinality(smp) > NUM_EXAMPLE_VALUES

\* line 90
CapReached(smp) == Cardinality(smp) >= NUM_EXAMPLE_VALUES

\* mutant: >= for >
HasSamples_ge(smp) == Cardinality(smp) >= 0

\* line 127
HasSamples(smp) == Cardinality(smp) > 0

\* no to_schema is run
ToSchemaIdle ==
    /\ self_fields = <<>>
    /\ tpc = "idle"
    /\ tpos = 0
    /\ schema_fields = <<>>

\* no Limit node is run
LimitIdle ==
    /\ all_docs = <<>>
    /\ limit = 0
    /\ lpc = "idle"
    /\ lpos = 0
    /\ count_local = 0
    /\ filtered_docs = <<>>
    /\ epc = "idle"
    /\ epos = 0
    /\ count_exec = 0
    /\ rayDocs = <<>>

Init ==
    /\ schema \in Schemas
    /\ random_sample \in 0..SampleBound(schema)
    /\ pc = "start"
    /\ result = <<>>
    /\ ki = 0
    /\ si = 0
    /\ samples = {}
    /\ sample_type = NoType
    /\ warnings = {}
    /\ nwarn = 0
    /\ examined = 0
    /\ hadValue = FALSE
    /\ failed = {}
    /\ discarded = {}
    /\ valued = {}
    /\ seen = {}
    /\ LimitIdle
    /\ ToSchemaIdle

\* lines 67-76
Begin ==
    /\ pc = "start"
    /\ result' = <<[key |-> text_representation, field |-> SyntheticField]>>
    /\ ki' = 1
    /\ pc' = "keys"
    /\ UNCHANGED <<schema, random_sample, si, samples, sample_type, warnings,
                   nwarn, examined, hadValue, failed, discarded, seen,
                   valued>>
    /\ UNCHANGED <<limitVars, toVars>>

\* lines 77-80
IgnoreKeyword ==
    /\ pc = "keys"
    /\ ki <= Len(one_schema)
    /\ endswith_keyword(key)
    /\ ki' = ki + 1
    /\ UNCHANGED <<schema, random_sample, pc, result, si, samples, sample_type,
                   warnings, nwarn, examined, hadValue, failed, discarded, seen,
                   valued>>
    /\ UNCHANGED <<limitVars, toVars>>

\* lines 81-83
IgnoreNonProperties ==
    /\ pc = "keys"
    /\ ki <= Len(one_schema)
    /\ ~endswith_keyword(key)
    /\ ~startswith_properties(key)
    /\ ki' = ki + 1
    /\ UNCHANGED <<schema, random_sample, pc, result, si, samples, sample_type,
                   warnings, nwarn, examined, hadValue, failed, discarded, seen,
                   valued>>
    /\ UNCHANGED <<limitVars, toVars>>

\* mutant: the type, the examples and the warnings are initialised once,
\* before the loop over the keys
StartKey_hoisted ==
    /\ pc = "keys"
    /\ ki <= Len(one_schema)
    /\ ~endswith_keyword(key)
    /\ startswith_properties(key)
    /\ examined' = 0
    /\ hadValue' = FALSE
    /\ seen' = {}
    /\ si' = 1
    /\ pc' = "samples"
    /\ UNCHANGED <<schema, random_sample, result, ki, failed, discarded, valued,
                   samples, sample_type, warnings, nwarn>>
    /\ UNCHANGED <<limitVars, toVars>>

\* lines 84-88
StartKey ==
    /\ pc = "keys"
    /\ ki <= Len(one_schema)
    /\ ~endswith_keyword(key)
    /\ startswith_properties(key)
    /\ samples' = {}
    /\ sample_type' = NoType
    /\ warnings' = {}
    /\ nwarn' = 0
    /\ examined' = 0
    /\ hadValue' = FALSE
    /\ seen' = {}
    /\ si' = 1
    /\ pc' = "samples"
    /\ UNCHANGED <<schema, random_sample, result, ki, failed, discarded, valued>>
    /\ UNCHANGED <<limitVars, toVars>>

\* lines 89-91: the cap is reached
Break ==
    /\ pc = "samples"
    /\ si <= random_sample
    /\ CapReached(samples)
    /\ pc' = "emit"
    /\ UNCHANGED <<schema, random_sample, result, ki, si, samples, sample_type,
                   warnings, nwarn, examined, hadValue, failed, discarded, seen,
                   valued>>
    /\ UNCHANGED <<limitVars, toVars>>

\* lines 89-93: dotted_lookup returns None
SampleNone ==
    /\ pc = "samples"
    /\ si <= random_sample
    /\ ~CapReached(samples)
    /\ si' = si + 1
    /\ examined' = examined + 1
    /\ UNCHANGED <<schema, random_sample, pc, result, ki, samples, sample_type,
                   warnings, nwarn, hadValue, failed, discarded, seen,
                   valued>>
    /\ UNCHANGED <<limitVars, toVars>>

\* lines 89-125: dotted_lookup returns a value
SampleValue ==
    /\ pc = "samples"
    /\ si <= random_sample
    /\ ~CapReached(samples)
    /\ \E sample_value \in ValuesFor(key) :
         LET r == Reconcile(sample_type, samples, key \in warnings, sample_value)
         IN  /\ sample_type' = r.sample_type
             /\ samples' = r.samples \cup {str(r.sample_value)}
             /\ warnings' = IF r.warn THEN warnings \cup {key} ELSE warnings
             /\ nwarn' = IF r.warn THEN nwarn + 1 ELSE nwarn
             /\ seen' = seen \cup {sample_value}
    /\ si' = si + 1
    /\ examined' = examined + 1
    /\ hadValue' = TRUE
    /\ valued' = valued \cup {key}
    /\ UNCHANGED <<schema, random_sample, pc, result, ki, failed, discarded>>
    /\ UNCHANGED <<limitVars, toVars>>

\* mutant: the KeyError is caught inside the loop and the walk goes on
SampleKeyError_per_sample ==
    /\ pc = "samples"
    /\ si <= random_sample
    /\ ~CapReached(samples)
    /\ examined' = examined + 1
    /\ failed' = failed \cup {key}
    /\ discarded' = IF hadValue THEN discarded \cup {key} ELSE discarded
    /\ si' = si + 1
    /\ UNCHANGED <<schema, random_sample, pc, result, ki, samples, sample_type,
                   warnings, nwarn, hadValue, seen, valued>>
    /\ UNCHANGED <<limitVars, toVars>>

\* lines 92, 132-136: dotted_lookup raises KeyError
SampleKeyError ==
    /\ pc = "samples"
    /\ si <= random_sample
    /\ ~CapReached(samples)
    /\ examined' = examined + 1
    /\ failed' = failed \cup {key}
    /\ discarded' = IF hadValue THEN discarded \cup {key} ELSE discarded
    /\ ki' = ki + 1
    /\ pc' = "keys"
    /\ UNCHANGED <<schema, random_sample, result, si, samples, sample_type,
                   warnings, nwarn, hadValue, seen, valued>>
    /\ UNCHANGED <<limitVars, toVars>>

\* line 89: random_sample is exhausted
EndSamples ==
    /\ pc = "samples"
    /\ si > random_sample
    /\ pc' = "emit"
    /\ UNCHANGED <<schema, random_sample, result, ki, si, samples, sample_type,
                   warnings, nwarn, examined, hadValue, failed, discarded, seen,
                   valued>>
    /\ UNCHANGED <<limitVars, toVars>>

\* lines 127-129
Emit ==
    /\ pc = "emit"
    /\ HasSamples(samples)
    /\ result' = SetField(result, key,
                          OpenSearchSchemaField(TypeStr(sample_type), <<>>, <<samples>>))
    /\ ki' = ki + 1
    /\ pc' = "keys"
    /\ UNCHANGED <<schema, random_sample, si, samples, sample_type, warnings,
                   nwarn, examined, hadValue, failed, discarded, seen,
                   valued>>
    /\ UNCHANGED <<limitVars, toVars>>

\* mutant: the length test is dropped and an entry without examples is made
NoSamples_emit ==
    /\ pc = "emit"
    /\ ~HasSamples(samples)
    /\ result' = SetField(result, key,
                          OpenSearchSchemaField(TypeStr(sample_type), <<>>, <<samples>>))
    /\ ki' = ki + 1
    /\ pc' = "keys"
    /\ UNCHANGED <<schema, random_sample, si, samples, sample_type, warnings,
                   nwarn, examined, hadValue, failed, discarded, seen,
                   valued>>
    /\ UNCHANGED <<limitVars, toVars>>

\* lines 130-131
NoSamples ==
    /\ pc = "emit"
    /\ ~HasSamples(samples)
    /\ ki' = ki + 1
    /\ pc' = "keys"
    /\ UNCHANGED <<schema, random_sample, result, si, samples, sample_type,
                   warnings, nwarn, examined, hadValue, failed, discarded, seen,
                   valued>>
    /\ UNCHANGED <<limitVars, toVars>>

\* line 137
Return ==
    /\ pc = "keys"
    /\ ki > Len(one_schema)
    /\ pc' = "done"
    /\ UNCHANGED <<schema, random_sample, result, ki, si, samples, sample_type,
                   warnings, nwarn, examined, hadValue, failed, discarded, seen,
                   valued>>
    /\ UNCHANGED <<limitVars, toVars>>

Next ==
    \/ Begin
    \/ IgnoreKeyword
    \/ IgnoreNonProperties
    \/ StartKey
    \/ Break
    \/ SampleNone
    \/ SampleValue
    \/ SampleKeyError
    \/ EndSamples
    \/ Emit
    \/ NoSamples
    \/ Return

Spec == Init /\ [][Next]_vars

----------------------------------------------------------------------------
(* Limit *)

Document(id) == [cls |-> "Document", doc_id |-> id]

MetadataDocument(id) == [cls |-> "MetadataDocument", doc_id |-> id]

Docs == {Document(1), Document(2), MetadataDocument(3)}

\* isinstance(doc, MetadataDocument)
IsMetadata(doc) == doc.cls = "MetadataDocument"

\* Document.serialize: the document's data, which holds a metadata key
\* exactly for a MetadataDocument
Serialize(doc) == <<"data", IsMetadata(doc), doc.doc_id>>

\* Document.deserialize
Deserialize(raw) == IF raw[2] THEN MetadataDocument(raw[3]) ELSE Document(raw[3])

\* self.child().execute(): one row per document, the document under "doc"
dataset == [i \in 1..Len(all_docs) |-> [doc |-> Serialize(all_docs[i])]]

\* no get_schema is run
SchemaIdle ==
    /\ schema = << <<>> >>
    /\ random_sample = 0
    /\ pc = "idle"
    /\ result = <<>>
    /\ ki = 0
    /\ si = 0
    /\ samples = {}
    /\ sample_type = NoType
    /\ warnings = {}
    /\ nwarn = 0
    /\ examined = 0
    /\ hadValue = FALSE
    /\ failed = {}
    /\ discarded = {}
    /\ valued = {}
    /\ seen = {}

\* lines 34-37 and 49-50: both loops are about to start on the same input
InitLimit ==
    /\ SchemaIdle
    /\ ToSchemaIdle
    /\ all_docs \in SeqsUpTo(Docs, MaxDocs)
    /\ limit \in -1..MaxLimit
    /\ lpc = "loop"
    /\ lpos = 1
    /\ count_local = 0
    /\ filtered_docs = <<>>
    /\ epc = "loop"
    /\ epos = 1
    /\ count_exec = 0
    /\ rayDocs = <<>>

\* lines 52-53: a MetadataDocument is passed over
LocalSkipMetadata ==
    /\ lpc = "loop"
    /\ lpos <= Len(all_docs)
    /\ IsMetadata(all_docs[lpos])
    /\ lpos' = lpos + 1
    /\ UNCHANGED <<all_docs, limit, lpc, count_local, filtered_docs,
                   epc, epos, count_exec, rayDocs>>
    /\ UNCHANGED <<schemaVars, toVars>>

\* lines 52-57: a document within the limit is kept
LocalKeep ==
    /\ lpc = "loop"
    /\ lpos <= Len(all_docs)
    /\ ~IsMetadata(all_docs[lpos])
    /\ ~(count_local + 1 > limit)
    /\ count_local' = count_local + 1
    /\ filtered_docs' = Append(filtered_docs, all_docs[lpos])
    /\ lpos' = lpos + 1
    /\ UNCHANGED <<all_docs, limit, lpc, epc, epos, count_exec, rayDocs>>
    /\ UNCHANGED <<schemaVars, toVars>>

\* mutant: the document is appended before the limit is tested
LocalBreak_append ==
    /\ lpc = "loop"
    /\ lpos <= Len(all_docs)
    /\ ~IsMetadata(all_docs[lpos])
    /\ count_local + 1 > limit
    /\ count_local' = count_local + 1
    /\ filtered_docs' = Append(filtered_docs, all_docs[lpos])
    /\ lpc' = "done"
    /\ UNCHANGED <<all_docs, limit, lpos, epc, epos, count_exec, rayDocs>>
    /\ UNCHANGED <<schemaVars, toVars>>

\* lines 52-56: the document past the limit ends the loop
LocalBreak ==
    /\ lpc = "loop"
    /\ lpos <= Len(all_docs)
    /\ ~IsMetadata(all_docs[lpos])
    /\ count_local + 1 > limit
    /\ count_local' = count_local + 1
    /\ lpc' = "done"
    /\ UNCHANGED <<all_docs, limit, lpos, filtered_docs, epc, epos, count_exec, rayDocs>>
    /\ UNCHANGED <<schemaVars, toVars>>

\* lines 52, 59: all_docs is exhausted
LocalReturn ==
    /\ lpc = "loop"
    /\ lpos > Len(all_docs)
    /\ lpc' = "done"
    /\ UNCHANGED <<all_docs, limit, lpos, count_local, filtered_docs,
                   epc, epos, count_exec, rayDocs>>
    /\ UNCHANGED <<schemaVars, toVars>>

\* mutant: the count is taken before the isinstance test
ExecSkipMetadata_counted ==
    /\ epc = "loop"
    /\ epos <= Len(dataset)
    /\ IsMetadata(Deserialize(dataset[epos].doc))
    /\ count_exec' = count_exec + 1
    /\ epos' = epos + 1
    /\ UNCHANGED <<all_docs, limit, lpc, lpos, count_local, filtered_docs,
                   epc, rayDocs>>
    /\ UNCHANGED <<schemaVars, toVars>>

\* lines 38-40: a row holding a MetadataDocument is passed over
ExecSkipMetadata ==
    /\ epc = "loop"
    /\ epos <= Len(dataset)
    /\ IsMetadata(Deserialize(dataset[epos].doc))
    /\ epos' = epos + 1
    /\ UNCHANGED <<all_docs, limit, lpc, lpos, count_local, filtered_docs,
                   epc, count_exec, rayDocs>>
    /\ UNCHANGED <<schemaVars, toVars>>

\* lines 38-44: a row within the limit is kept
ExecKeep ==
    /\ epc = "loop"
    /\ epos <= Len(dataset)
    /\ ~IsMetadata(Deserialize(dataset[epos].doc))
    /\ ~(count_exec + 1 > limit)
    /\ count_exec' = count_exec + 1
    /\ rayDocs' = Append(rayDocs, dataset[epos])
    /\ epos' = epos + 1
    /\ UNCHANGED <<all_docs, limit, lpc, lpos, count_local, filtered_docs, epc>>
    /\ UNCHANGED <<schemaVars, toVars>>

\* lines 38-43: the row past the limit ends the loop
ExecBreak ==
    /\ epc = "loop"
    /\ epos <= Len(dataset)
    /\ ~IsMetadata(Deserialize(dataset[epos].doc))
    /\ count_exec + 1 > limit
    /\ count_exec' = count_exec + 1
    /\ epc' = "done"
    /\ UNCHANGED <<all_docs, limit, lpc, lpos, count_local, filtered_docs,
                   epos, rayDocs>>
    /\ UNCHANGED <<schemaVars, toVars>>

\* lines 38, 46: the rows are exhausted
ExecReturn ==
    /\ epc = "loop"
    /\ epos > Len(dataset)
    /\ epc' = "done"
    /\ UNCHANGED <<all_docs, limit, lpc, lpos, count_local, filtered_docs,
                   epos, count_exec, rayDocs>>
    /\ UNCHANGED <<schemaVars, toVars>>

NextLimit ==
    \/ LocalSkipMetadata
    \/ LocalKeep
    \/ LocalBreak
    \/ LocalReturn
    \/ ExecSkipMetadata
    \/ ExecKeep
    \/ ExecBreak
    \/ ExecReturn

SpecLimit == InitLimit /\ [][NextLimit]_vars

----------------------------------------------------------------------------
(* to_schema *)

\* a key of the mapping as the string it is
RECURSIVE Dotted(_)
Dotted(k) ==
    IF Len(k) = 1 THEN k[1] ELSE k[1] \o "." \o Dotted(Tail(k))

\* the fields a mapping may hold: those get_schema makes, carrying the name
\* "default", and fields that carry a name of their own
SchemaFields ==
    {SyntheticField}
    \cup {[name |-> n, field_type |-> t, description |-> <<>>, examples |-> e] :
            n \in {"default", "x"},
            t \in {"<class 'int'>", "<class 'str'>"},
            e \in {<<>>, << {"1"} >>}}

FieldNames == { text_representation, <<"properties", "x">>, <<"properties", "name">> }

\* the mappings of up to MaxFields entries: distinct keys, in insertion order
Mappings ==
    {m \in SeqsUpTo([key : FieldNames, field : SchemaFields], MaxFields) :
        \A i, j \in 1..Len(m) : m[i].key = m[j].key => i = j}

\* lines 27-28: to_schema is called on an OpenSearchSchema
InitToSchema ==
    /\ SchemaIdle
    /\ LimitIdle
    /\ self_fields \in Mappings
    /\ tpc = "loop"
    /\ tpos = 1
    /\ schema_fields = <<>>

\* mutant: the merge is written the other way round and the entry's name wins
ToSchemaAppend_entry_name ==
    /\ tpc = "loop"
    /\ tpos <= Len(self_fields)
    /\ schema_fields' = Append(schema_fields, self_fields[tpos].field)
    /\ tpos' = tpos + 1
    /\ UNCHANGED <<self_fields, tpc>>
    /\ UNCHANGED <<schemaVars, limitVars>>

\* lines 29-30: SchemaField(**{**field.dict(), "name": field_name})
ToSchemaAppend ==
    /\ tpc = "loop"
    /\ tpos <= Len(self_fields)
    /\ LET field_name == Dotted(self_fields[tpos].key)
           field == self_fields[tpos].field
       IN  schema_fields' = Append(schema_fields, [field EXCEPT !.name = field_name])
    /\ tpos' = tpos + 1
    /\ UNCHANGED <<self_fields, tpc>>
    /\ UNCHANGED <<schemaVars, limitVars>>

\* line 31
ToSchemaReturn ==
    /\ tpc = "loop"
    /\ tpos > Len(self_fields)
    /\ tpc' = "done"
    /\ UNCHANGED <<self_fields, tpos, schema_fields>>
    /\ UNCHANGED <<schemaVars, limitVars>>

NextToSchema ==
    \/ ToSchemaAppend
    \/ ToSchemaReturn

SpecToSchema == InitToSchema /\ [][NextToSchema]_vars

----------------------------------------------------------------------------
(* Properties *)

InWalk == pc = "samples"

\* the key whose walk was the last to end, once the loop has moved on
lastKey == one_schema[ki - 1]

\* C1: the example set never holds more than NUM_EXAMPLE_VALUES strings,
\* also right after a step that rewrote it, and a walk whose set holds
\* NUM_EXAMPLE_VALUES strings examines no further sample: its next step only
\* leaves the loop, with the type, the examples, the warnings, the result and
\* the set of failed keys as they were.
C1_CapInvariant ==
    [][ /\ Cardinality(samples') <= NUM_EXAMPLE_VALUES
        /\ (InWalk /\ Cardinality(samples) = NUM_EXAMPLE_VALUES) =>
              /\ pc' = "emit"
              /\ examined' = examined
              /\ UNCHANGED <<samples, sample_type, nwarn, result, failed, ki>> ]_vars

\* the cap is reached with records left in the sample, after a promotion to
\* list rewrote the examples
C1_Witness ==
    /\ pc = "emit"
    /\ si <= random_sample
    /\ Cardinality(samples) = NUM_EXAMPLE_VALUES
    /\ sample_type = "list"
    /\ "['1']" \in samples

NarrowTypes == {"int", "float", "bool"}

\* C2: within the walk of one key, a step taken with sample_type list or str
\* leaves sample_type list or str: it never becomes int, float or bool again
\* (nor unset), and list stays list.
C2_UpgradeMonotonicity ==
    [][ (InWalk /\ sample_type \in {"list", "str"}) =>
           /\ sample_type' \in {"list", "str"}
           /\ sample_type' \notin NarrowTypes
           /\ (sample_type = "list" => sample_type' = "list") ]_vars

\* the type went through str ("foo" and 1 in conflict), then list (the two
\* examples rewrapped), and the int 3 that arrived under list left it list
C2_Witness ==
    /\ InWalk
    /\ sample_type = "list"
    /\ nwarn = 1
    /\ {"['foo']", "['1']", "[3]"} \subseteq samples

\* C3 as stated: no key of the listing that ends with .keyword or does not
\* start with properties. is a field of the returned Schema.
C3_Original ==
    pc = "done" =>
        \A i \in 1..Len(one_schema) :
            (endswith_keyword(one_schema[i]) \/ ~startswith_properties(one_schema[i]))
                => ~HasField(result, one_schema[i])

\* C3 amended: every field of the Schema other than the synthetic
\* text_representation is a key that starts with properties. and does not end
\* with .keyword, at every point of the run; a listed key rejected by the
\* filter is a field only if it is text_representation itself.
C3_Filtering ==
    \A i \in 1..Len(result) :
        result[i].key # text_representation =>
            /\ Len(result[i].key) >= 2
            /\ Head(result[i].key) = "properties"
            /\ result[i].key[Len(result[i].key)] # "keyword"

\* a listing with a .keyword key and an eligible key, both walked past, the
\* eligible one reported
C3_Witness ==
    /\ pc = "done"
    /\ one_schema = << <<"properties", "name", "keyword">>, <<"properties", "name">> >>
    /\ HasField(result, <<"properties", "name">>)

\* C4: from the construction of the result on, its first entry is
\* text_representation with type <class 'str'>, the fixed description and no
\* examples, and no other entry has that key.
C4_SyntheticField ==
    pc # "start" =>
        /\ Len(result) >= 1
        /\ result[1].key = text_representation
        /\ result[1].field.field_type = "<class 'str'>"
        /\ result[1].field.description = <<"Can be assumed to have all other details">>
        /\ result[1].field.examples = <<>>
        /\ \A i \in 2..Len(result) : result[i].key # text_representation

\* the listing itself names text_representation, next to a reported key
C4_Witness ==
    /\ pc = "done"
    /\ \E i \in 1..Len(one_schema) : one_schema[i] = text_representation
    /\ Len(result) = 2

\* C5: a walk that ends without any non-None lookup result, whether the
\* sample was empty, all lookups returned None, or a lookup raised, adds
\* nothing to the result, and the key has no entry.
C5_Omission ==
    [][ (pc \in {"samples", "emit"} /\ ki' = ki + 1 /\ ~hadValue) =>
           /\ result' = result
           /\ ~HasField(result', key) ]_vars

\* two records examined, both None, the walk over, no entry
C5_Witness ==
    /\ pc = "keys"
    /\ ki = 2
    /\ Eligible(lastKey)
    /\ examined = 2
    /\ random_sample = 2
    /\ ~hadValue
    /\ lastKey \notin failed
    /\ ~HasField(result, lastKey)

\* Reconcile applied to the state of the walk and a value v
Reconciled(v) == Reconcile(sample_type, samples, key \in warnings, v)

\* C6: in every state of a walk whose sample_type is set, reconciling a
\* value of that same type leaves the type and the examples as they are,
\* calls no warning and adds the value itself, unwrapped, so that the new
\* example set is the old one plus str(value).
C6_Idempotence ==
    (InWalk /\ sample_type # NoType) =>
        \A v \in ValuesFor(key) :
            type(v) = sample_type =>
                LET r == Reconciled(v)
                IN  /\ r.sample_type = sample_type
                    /\ r.samples = samples
                    /\ ~r.warn
                    /\ r.samples \cup {str(r.sample_value)} = samples \cup {str(v)}

\* three lookups gave the ints 1, 3 and 5: int met int twice
C6_Witness ==
    /\ InWalk
    /\ sample_type = "int"
    /\ samples = {"1", "3", "5"}
    /\ examined = 3
    /\ nwarn = 0

\* C7: a key whose walk ended in the KeyError handler has no entry in the
\* result, whatever had been sampled for it before; the run goes on to the
\* end of the listing, and the keys after it are walked and reported.
C7_FieldLevelFailure ==
    /\ \A k \in failed : ~HasField(result, k)
    /\ discarded \subseteq failed
    /\ pc = "done" => ki = Len(one_schema) + 1
    /\ (pc = "keys" /\ ki > 1 /\ Eligible(lastKey) /\ lastKey \notin failed /\ hadValue)
          => HasField(result, lastKey)

\* properties.x failed after a value had been sampled for it, and
\* properties.name, listed after it, is reported
C7_Witness ==
    /\ pc = "done"
    /\ one_schema = << <<"properties", "x">>, <<"properties", "name">> >>
    /\ discarded = { <<"properties", "x">> }
    /\ HasField(result, <<"properties", "name">>)
    /\ ~HasField(result, <<"properties", "x">>)

\* C8 as stated: a key with a lookup failure against one record is still
\* reported from the values of the other records examined for it.
C8_Original ==
    pc = "done" => \A k \in discarded : HasField(result, k)

\* C8 amended: a lookup failure against one record ends the walk of that
\* key: the step adds nothing to the result, the key has no entry, the
\* values sampled from the records before it are dropped with it, and the
\* loop moves on to the next key.
C8_FailureEndsWalk ==
    [][ failed' # failed =>
           /\ failed' = failed \cup {key}
           /\ result' = result
           /\ ~HasField(result', key)
           /\ pc' = "keys"
           /\ ki' = ki + 1 ]_vars

\* the failure came after two values, with records left in the sample
C8_Witness ==
    /\ pc = "keys"
    /\ ki > 1
    /\ lastKey \in discarded
    /\ Cardinality(samples) = 2
    /\ examined = 3
    /\ si < random_sample
    /\ ~HasField(result, lastKey)

\* T and U conflict: different, neither list, not int with float
Conflict(T, U) ==
    /\ T # U
    /\ T # "list" /\ U # "list"
    /\ {T, U} # {"int", "float"}

\* C9: in every state of a walk whose sample_type T is set, reconciling a
\* value whose type conflicts with T gives type str, keeps the examples,
\* adds the value's own string and warns exactly if the key has not been
\* warned about; at most one warning is logged per walk; and the two
\* samples 1 and "foo" give type str with one warning.
C9_ConflictDemotion ==
    /\ nwarn <= 1
    /\ nwarn = Cardinality(warnings)
    /\ (InWalk /\ sample_type # NoType) =>
          \A v \in ValuesFor(key) :
              Conflict(sample_type, type(v)) =>
                  LET r == Reconciled(v)
                  IN  /\ r.sample_type = "str"
                      /\ r.samples = samples
                      /\ r.sample_value = v
                      /\ r.warn = (nwarn = 0)
    /\ (examined = 2 /\ samples = {"1", "foo"}) => (sample_type = "str" /\ nwarn = 1)

\* bool, int and str met in one walk: two conflicts, one warning
C9_Witness ==
    /\ InWalk
    /\ examined = 3
    /\ samples = {"1", "True", "foo"}
    /\ sample_type = "str"
    /\ nwarn = 1

\* the strings of the lists a walk can produce: the sampled lists, the
\* singleton of a sampled scalar, the singleton of a scalar's string
ListStrings ==
    {str(v) : v \in {w \in AllValues : type(w) = "list"}}
    \cup {"[" \o repr(v) \o "]" : v \in {w \in AllValues : type(w) # "list"}}
    \cup {"['" \o str(v) \o "']" : v \in {w \in AllValues : type(w) # "list"}}

\* C10: in every state of a walk, reconciling a list against a set non-list
\* type gives type list and replaces every example e by "['e']", as many as
\* before, with no warning; reconciling a scalar against type list keeps the
\* type and the examples and adds the string of the singleton list of the
\* scalar; under type list every example, in the walk and in the result, is
\* the string of a list; "a" and ["b", "c"] give type list.
C10_ListPromotion ==
    /\ (InWalk /\ sample_type # NoType) =>
          \A v \in ValuesFor(key) :
              LET r == Reconciled(v)
              IN  /\ (sample_type # "list" /\ type(v) = "list") =>
                        /\ r.sample_type = "list"
                        /\ r.samples = {"['" \o e \o "']" : e \in samples}
                        /\ Cardinality(r.samples) = Cardinality(samples)
                        /\ r.sample_value = v
                        /\ ~r.warn
                  /\ (sample_type = "list" /\ type(v) # "list") =>
                        /\ r.sample_type = "list"
                        /\ r.samples = samples
                        /\ str(r.sample_value) = "[" \o repr(v) \o "]"
                        /\ ~r.warn
    /\ sample_type = "list" => samples \subseteq ListStrings
    /\ \A i \in 1..Len(result) :
          result[i].field.field_type = "<class 'list'>" =>
              result[i].field.examples[1] \subseteq ListStrings
    /\ (examined = 2 /\ samples = {"['a']", "['b', 'c']"}) => sample_type = "list"

\* "a" then ["b", "c"], or the other way round, reported under type list
C10_Witness ==
    /\ pc = "done"
    /\ random_sample = 2
    /\ HasField(result, <<"properties", "x">>)
    /\ FieldOf(result, <<"properties", "x">>).field_type = "<class 'list'>"
    /\ FieldOf(result, <<"properties", "x">>).examples = << {"['a']", "['b', 'c']"} >>

\* the values of the current walk are ints and floats, one float at least
NumericWalk ==
    /\ \A v \in seen : type(v) \in {"int", "float"}
    /\ \E v \in seen : type(v) = "float"

\* C11: when the values sampled for a key so far are ints and floats with a
\* float among them, in whatever order they came, the type is float, no
\* warning was logged and the examples are the strings of those values,
\* an int keeping its int string; the entry written for such a key has type
\* <class 'float'> and these examples; 5, 7.5 and 3 give "5", "7.5", "3".
C11_IntFloatPromotion ==
    NumericWalk =>
        /\ sample_type = "float"
        /\ nwarn = 0
        /\ samples = {str(v) : v \in seen}
        /\ (seen = {PyInt(5), PyFloat(75), PyInt(3)}) => samples = {"5", "7.5", "3"}
        /\ (pc = "keys" /\ ki > 1 /\ Eligible(lastKey) /\ lastKey \notin failed) =>
              /\ HasField(result, lastKey)
              /\ FieldOf(result, lastKey).field_type = "<class 'float'>"
              /\ FieldOf(result, lastKey).examples = <<samples>>

\* three records gave 5, 7.5 and 3, and the field is reported as float
C11_Witness ==
    /\ pc = "done"
    /\ random_sample = 3
    /\ seen = {PyInt(5), PyFloat(75), PyInt(3)}
    /\ HasField(result, <<"properties", "x">>)
    /\ FieldOf(result, <<"properties", "x">>).field_type = "<class 'float'>"
    /\ FieldOf(result, <<"properties", "x">>).examples = << {"5", "7.5", "3"} >>

Min(a, b) == IF a <= b THEN a ELSE b

\* the non-metadata documents of the input, in input order
NonMetadata == SelectSeq(all_docs, LAMBDA d : d.cls = "Document")

\* C12: local_execute with limit L >= 0 returns the first min(L, k) of the k
\* non-metadata documents of its input, in input order: at most L documents,
\* no MetadataDocument, and nothing when L is 0.
C12_LimitLocal ==
    (lpc = "done" /\ limit >= 0) =>
        /\ filtered_docs = SubSeq(NonMetadata, 1, Min(limit, Len(NonMetadata)))
        /\ Len(filtered_docs) <= limit
        /\ \A i \in 1..Len(filtered_docs) : filtered_docs[i].cls # "MetadataDocument"
        /\ (limit = 0) => filtered_docs = <<>>

\* a limit of 1 cuts an input of two documents among metadata
C12_Witness ==
    /\ lpc = "done"
    /\ limit = 1
    /\ all_docs = <<MetadataDocument(3), Document(2), MetadataDocument(3), Document(1)>>
    /\ filtered_docs = <<Document(2)>>

\* an eligible key whose lookups returned a value and never raised
Qualified(k) == Eligible(k) /\ k \in valued /\ k \notin failed

keysOf(fields) == [i \in 1..Len(fields) |-> fields[i].key]

\* C13: between two keys and at the end, the keys of the result are
\* text_representation followed by the eligible keys of the first listing,
\* among those walked so far, that yielded a non-None value and no KeyError,
\* in listing order and once each; the entry of the key just walked holds the
\* type and the non-empty example set its walk ended with, and every entry
\* after the synthetic one has a type and a non-empty example set.
C13_CompletenessAndOrder ==
    (pc \in {"keys", "done"}) =>
        /\ keysOf(result) =
              <<text_representation>> \o SelectSeq(SubSeq(schema[1], 1, ki - 1), Qualified)
        /\ (ki > 1 /\ Qualified(lastKey)) =>
              /\ result[Len(result)].key = lastKey
              /\ result[Len(result)].field.field_type = TypeStr(sample_type)
              /\ result[Len(result)].field.examples = <<samples>>
        /\ \A i \in 2..Len(result) :
              /\ result[i].field.field_type # "None"
              /\ Len(result[i].field.examples) = 1
              /\ result[i].field.examples[1] # {}

\* two eligible keys: the first yields only None and is left out, the second
\* yields values and is the only entry after the synthetic one
C13_Witness ==
    /\ pc = "done"
    /\ schema[1] = << <<"properties", "name">>, <<"properties", "x">> >>
    /\ random_sample >= 2
    /\ valued = { <<"properties", "x">> }
    /\ failed = {}
    /\ seen = {PyInt(1), PyStr("a")}
    /\ keysOf(result) = <<text_representation, <<"properties", "x">> >>

\* the type the claim assigns to a collection of non-None values
TypeOfSet(vs) ==
    LET ts == {type(v) : v \in vs}
    IN  IF ts = {} THEN NoType
        ELSE IF "list" \in ts THEN "list"
        ELSE IF Cardinality(ts) = 1 THEN CHOOSE t \in ts : TRUE
        ELSE IF ts \subseteq {"int", "float"} THEN "float"
        ELSE "str"

\* C14: at every point of a walk, and so at its end, the type is a function
\* of the set of runtime types of the non-None values examined so far,
\* whatever their order: list if any is a list, else the common type if
\* there is one, else float if all are ints or floats, else str; and the
\* entry of a walk that ended without a KeyError carries that type.
C14_OrderIndependence ==
    /\ (pc \in {"samples", "emit"}) => sample_type = TypeOfSet(seen)
    /\ (pc = "keys" /\ ki > 1 /\ Eligible(lastKey) /\ lastKey \notin failed /\ seen # {}) =>
          /\ sample_type = TypeOfSet(seen)
          /\ FieldOf(result, lastKey).field_type = TypeStr(TypeOfSet(seen))

\* an int, a str and a list were examined, in an order that demoted the
\* type to str before the list arrived; no cap, no failure; the entry is a list
C14_Witness ==
    /\ pc = "keys"
    /\ ki > 1
    /\ lastKey = <<"properties", "x">>
    /\ lastKey \notin failed
    /\ seen = {PyInt(1), PyStr("a"), PyList(<<PyStr("b"), PyStr("c")>>)}
    /\ nwarn = 1
    /\ Cardinality(samples) < NUM_EXAMPLE_VALUES
    /\ FieldOf(result, lastKey).field_type = "<class 'list'>"

\* C15: the walk of a key starts from a fresh type, example set and warning
\* state, whatever the keys before it did, and has nothing but these until
\* its own first value; the warning state never names another key; no step
\* changes or removes an entry of the result, and the only entry a step adds
\* is the one of the current key, built from the type and the examples of
\* its own walk.
C15_FieldIndependence ==
    [][ /\ (pc = "keys" /\ pc' = "samples") =>
              /\ samples' = {}
              /\ sample_type' = NoType
              /\ warnings' = {}
              /\ nwarn' = 0
        /\ (pc' = "samples" /\ ~hadValue') =>
              /\ samples' = {}
              /\ sample_type' = NoType
              /\ warnings' = {}
        /\ (pc' = "samples") => warnings' \subseteq {schema[1][ki']}
        /\ (pc # "start") =>
              /\ Len(result') >= Len(result)
              /\ \A i \in 1..Len(result) : result'[i] = result[i]
              /\ \A i \in (Len(result) + 1)..Len(result') :
                    /\ pc = "emit"
                    /\ i = Len(result) + 1
                    /\ result'[i] =
                          [key   |-> schema[1][ki],
                           field |-> OpenSearchSchemaField(TypeStr(sample_type), <<>>,
                                                           <<samples>>)] ]_vars

\* the walk of properties.x drew a value and then failed; properties.name,
\* walked after it, has the entry its own values give
C15_Witness ==
    /\ pc = "done"
    /\ schema[1] = << <<"properties", "x">>, <<"properties", "name">> >>
    /\ discarded = { <<"properties", "x">> }
    /\ Len(result) = 2
    /\ result[2] = [key   |-> <<"properties", "name">>,
                    field |-> OpenSearchSchemaField("<class 'str'>", <<>>, << {"a"} >>)]

NonMetadataUpTo(p) == Cardinality({j \in 1..p : all_docs[j].cls = "Document"})

\* the rows that serialize the documents kept by local_execute
SerializedRows == [i \in 1..Len(filtered_docs) |-> [doc |-> Serialize(filtered_docs[i])]]

\* both loops are over and read the same number of elements
SameSelection ==
    /\ rayDocs = SerializedRows
    /\ epos = lpos

\* the claim as written: the rows of execute serialize the documents of
\* local_execute, in order, for every limit, and a loop that stops before
\* the end of its input stops at the (limit+1)-th non-metadata document.
C17_Original ==
    (lpc = "done" /\ epc = "done") =>
        /\ SameSelection
        /\ (lpos <= Len(all_docs)) =>
              /\ all_docs[lpos].cls = "Document"
              /\ NonMetadataUpTo(lpos) = limit + 1

Max(a, b) == IF a >= b THEN a ELSE b

\* C17: the rows of execute serialize the documents of local_execute, in
\* order, for every limit, and both loops read the same elements: up to
\* the (limit+1)-th non-metadata document for a limit of 0 or more, up to
\* the first one for a negative limit, and the whole input when it has no
\* such document.
C17_SameSelection ==
    (lpc = "done" /\ epc = "done") =>
        /\ SameSelection
        /\ IF Len(NonMetadata) > Max(limit, 0)
           THEN /\ lpos <= Len(all_docs)
                /\ all_docs[lpos].cls = "Document"
                /\ NonMetadataUpTo(lpos) = Max(limit, 0) + 1
           ELSE lpos = Len(all_docs) + 1

\* a limit of 1: both stop at the second document, the third element, and
\* leave the fourth unread
C17_Witness ==
    /\ lpc = "done"
    /\ epc = "done"
    /\ limit = 1
    /\ all_docs = <<Document(1), MetadataDocument(3), Document(2), Document(1)>>
    /\ lpos = 3
    /\ epos = 3
    /\ rayDocs = << [doc |-> <<"data", FALSE, 1>>] >>

\* C18: to_schema never changes the mapping, and the list it returns has one
\* field per entry, in the order of the mapping, each with the key of its
\* entry as name, whatever name the entry carried, and with the type, the
\* description and the examples of the entry.
C18_ToSchema ==
    [][ /\ self_fields' = self_fields
        /\ (tpc' = "done") =>
              /\ Len(schema_fields') = Len(self_fields)
              /\ \A i \in 1..Len(self_fields) :
                    /\ schema_fields'[i].name = Dotted(self_fields[i].key)
                    /\ schema_fields'[i].field_type = self_fields[i].field.field_type
                    /\ schema_fields'[i].description = self_fields[i].field.description
                    /\ schema_fields'[i].examples = self_fields[i].field.examples ]_vars

\* one entry carries the name default, the other a name of its own; both
\* fields come out under their keys
C18_Witness ==
    /\ tpc = "done"
    /\ Len(self_fields) = 2
    /\ self_fields[1].key = <<"properties", "x">>
    /\ self_fields[1].field.name = "default"
    /\ self_fields[2].key = text_representation
    /\ self_fields[2].field.name = "x"
    /\ schema_fields[1].name = "properties.x"
    /\ schema_fields[1].examples = << {"1"} >>
    /\ schema_fields[2].name = "text_representation"

====
